---- MODULE Spec2Model ----
(***************************************************************************)
(* PEGY Stock Screener (src/app.py): the ticker parser, the cached         *)
(* fundamentals fetcher and the Run Screen pipeline.                       *)
(*                                                                         *)
(* Units.  Python strings are sequences of one-character strings.  Every   *)
(* number the pipeline handles (P/E, percentages, thresholds) is an        *)
(* integer count of tenths; a provider fraction (dividendYield, "+5y") is  *)
(* an integer count of hundredths.  A float cell of a frame is a record    *)
(* [nan, v]; a PEGY cell is the exact quotient [nan, num, den], den > 0.   *)
(***************************************************************************)
EXTENDS Integers, Sequences, FiniteSets, TLC

VARIABLES
    txt,            \* tickers_text, the sidebar text area (app.py:29)
    tickers,        \* tickers = parse_tickers(tickers_text) (app.py:60)
    pe_type,        \* app.py:49
    growth_source,  \* app.py:35
    manual_growth,  \* app.py:44
    min_div_yield,  \* app.py:51
    max_pegy,       \* app.py:52
    now,            \* wall clock, seconds
    fsCache,        \* st.cache_data store of fetch_summary (app.py:62)
    batchCache,     \* st.cache_data store of batch_fetch (app.py:100)
    lastCall,       \* what the latest batch_fetch call did
    calls,          \* number of batch_fetch calls so far
    df,             \* the frame of the run (app.py:115-135)
    filtered,       \* app.py:138-145
    shown,          \* the table handed to st.dataframe (app.py:149)
    csv,            \* the text handed to st.download_button (app.py:156)
    pc              \* position of the script

vars == <<txt, tickers, pe_type, growth_source, manual_growth, min_div_yield,
          max_pegy, now, fsCache, batchCache, lastCall, calls, df, filtered,
          shown, csv, pc>>

\* ------------------------------------------------------------------ bounds

MaxLen == 4
MaxTickers == 2
MaxCalls == 3
MaxNow == 1200
TickSeconds == 300

\* ------------------------------------------------------------------ strings

Lower == {"a"}
Whitespace == {" ", "\t"}
Chars == {"a", "B", " ", "\t", ",", "\n"}

Max(a, b) == IF a >= b THEN a ELSE b

BoundedSeq(S, n) == UNION {[1..k -> S] : k \in 0..n}

Range(s) == {s[i] : i \in DOMAIN s}

\* str.upper, per character
UpperChar(c) == IF c = "a" THEN "A" ELSE c

upper(s) == [i \in DOMAIN s |-> UpperChar(s[i])]

\* str.replace("\n", ",")
replace(s) == [i \in DOMAIN s |-> IF s[i] = "\n" THEN "," ELSE s[i]]

\* str.split(","): the pieces between commas, empty pieces kept
RECURSIVE split(_)
split(s) ==
    IF s = <<>> THEN << <<>> >>
    ELSE LET rest == split(Tail(s))
         IN  IF Head(s) = ","
             THEN << <<>> >> \o rest
             ELSE << <<Head(s)>> \o Head(rest) >> \o Tail(rest)

RECURSIVE lstrip(_)
lstrip(s) ==
    IF s # <<>> /\ Head(s) \in Whitespace \cup {"\n"} THEN lstrip(Tail(s)) ELSE s

RECURSIVE rstrip(_)
rstrip(s) ==
    IF s # <<>> /\ s[Len(s)] \in Whitespace \cup {"\n"}
    THEN rstrip(SubSeq(s, 1, Len(s) - 1))
    ELSE s

strip(s) == rstrip(lstrip(s))

NonEmpty(t) == t # <<>>

\* faulty variant: the pieces are upper-cased but not stripped
parse_tickers_nostrip(t) ==
    LET pieces == split(replace(t))
        raw == [i \in DOMAIN pieces |-> upper(pieces[i])]
    IN  SelectSeq(raw, NonEmpty)

RECURSIVE dedup(_)
dedup(s) ==
    IF s = <<>> THEN <<>>
    ELSE LET d == dedup(SubSeq(s, 1, Len(s) - 1))
         IN  IF s[Len(s)] \in Range(d) THEN d ELSE Append(d, s[Len(s)])

\* faulty variant: a parser that drops repeated symbols
parse_tickers_dedup(t) ==
    LET pieces == split(replace(t))
        raw == [i \in DOMAIN pieces |-> upper(strip(pieces[i]))]
    IN  dedup(SelectSeq(raw, NonEmpty))

parse_tickers(t) ==
    LET pieces == split(replace(t))
        raw == [i \in DOMAIN pieces |-> upper(strip(pieces[i]))]
    IN  SelectSeq(raw, NonEmpty)

\* ------------------------------------------------------------------ cells

NaN == [nan |-> TRUE, v |-> 0]
Num(x) == [nan |-> FALSE, v |-> x]
NaNStr == [nan |-> TRUE, v |-> <<>>]
Str(s) == [nan |-> FALSE, v |-> s]

\* the keys of the dict fetch_summary returns, in insertion order
SummaryKeys ==
    <<"Ticker", "Name", "Price", "Sector", "Trailing PE", "Forward PE",
      "Dividend %", "Analyst 5y Growth %">>

\* the keys of the dict batch_fetch appends for a failed ticker
ErrorKeys == <<"Ticker", "Error">>

StringCols == {"Ticker", "Name", "Sector", "Error"}

\* the cell pandas puts where a row has no value for column c
Missing(c) == IF c \in StringCols THEN NaNStr ELSE NaN

\* ------------------------------------------------------------------ provider

Symbols == {<<"A">>, <<"B">>}

Absent == [has |-> FALSE, v |-> 0]
Has(x) == [has |-> TRUE, v |-> x]
AbsentStr == [has |-> FALSE, v |-> <<>>]

\* What yf.Ticker(t) can answer: the info bag and the analysis table, or an
\* exception raised while reading info.
Healthy ==
    [raises |-> FALSE,
     trailingPE |-> Has(240), forwardPE |-> Has(200),
     dividendYield |-> [kind |-> "value", v |-> 2],
     analysis |-> [kind |-> "table", has5y |-> TRUE, col |-> <<NaN, Num(10)>>],
     shortName |-> Has(<<"H">>), longName |-> Has(<<"H", "L">>),
     currentPrice |-> Has(1000), regularMarketPrice |-> Has(990),
     sector |-> Has(<<"T">>)]

Sparse ==
    [raises |-> FALSE,
     trailingPE |-> Absent, forwardPE |-> Has(150),
     dividendYield |-> [kind |-> "none", v |-> 0],
     analysis |-> [kind |-> "raises", has5y |-> FALSE, col |-> <<>>],
     shortName |-> AbsentStr, longName |-> AbsentStr,
     currentPrice |-> Absent, regularMarketPrice |-> Has(50),
     sector |-> AbsentStr]

Shrinking ==
    [raises |-> FALSE,
     trailingPE |-> Has(100), forwardPE |-> Has(-30),
     dividendYield |-> [kind |-> "value", v |-> -1],
     analysis |-> [kind |-> "table", has5y |-> TRUE, col |-> <<Num(-5)>>],
     shortName |-> AbsentStr, longName |-> Has(<<"S">>),
     currentPrice |-> Absent, regularMarketPrice |-> Absent,
     sector |-> Has(<<"E">>)]

Failing == [Healthy EXCEPT !.raises = TRUE]

Provider == {Healthy, Sparse, Shrinking, Failing}

\* ------------------------------------------------------------------ fetcher

\* info.get(key, np.nan)
get_or_nan(x) == IF x.has THEN Num(x.v) ELSE NaN

\* float(div_yield) * 100.0: hundredths of a fraction to tenths of a percent
div_yield_pct(d) == IF d.kind = "value" THEN Num(d.v * 10) ELSE Num(0)

RECURSIVE dropna(_)
dropna(col) ==
    IF col = <<>> THEN <<>>
    ELSE IF Head(col).nan THEN dropna(Tail(col))
    ELSE <<Head(col)>> \o dropna(Tail(col))

\* analysis["+5y"].dropna().iloc[0] * 100.0, NaN when unavailable or raising
growth_pct(a) ==
    IF a.kind = "table" /\ a.has5y /\ dropna(a.col) # <<>>
    THEN Num(dropna(a.col)[1].v * 10)
    ELSE NaN

\* a or b or default, on strings: an absent or empty string is falsy
or_str(a, b, d) ==
    IF a.has /\ a.v # <<>> THEN a.v
    ELSE IF b.has /\ b.v # <<>> THEN b.v
    ELSE d

\* a or b or np.nan, on numbers: absent or zero is falsy
or_num(a, b) ==
    IF a.has /\ a.v # 0 THEN Num(a.v)
    ELSE IF b.has /\ b.v # 0 THEN Num(b.v)
    ELSE NaN

fetch_summary(ticker, o) ==
    [c \in Range(SummaryKeys) |->
        CASE c = "Ticker" -> Str(ticker)
          [] c = "Name" -> Str(or_str(o.shortName, o.longName, ticker))
          [] c = "Price" -> or_num(o.currentPrice, o.regularMarketPrice)
          [] c = "Sector" -> Str(or_str(o.sector, AbsentStr, <<>>))
          [] c = "Trailing PE" -> get_or_nan(o.trailingPE)
          [] c = "Forward PE" -> get_or_nan(o.forwardPE)
          [] c = "Dividend %" -> div_yield_pct(o.dividendYield)
          [] c = "Analyst 5y Growth %" -> growth_pct(o.analysis)]

\* {"Ticker": t, "Error": str(e)}
error_row(ticker) ==
    [c \in Range(ErrorKeys) |-> IF c = "Ticker" THEN Str(ticker) ELSE Str(<<"e">>)]

IsErrorRow(r) == "Error" \in DOMAIN r

KeysOf(r) == IF IsErrorRow(r) THEN ErrorKeys ELSE SummaryKeys

\* ------------------------------------------------------------------ cache

\* ttl=60*15
TTL == 60 * 15

EmptyCache == [k \in {} |-> 0]

\* faulty variant: an entry that never expires
Fresh_forever(cache, key, t) == key \in DOMAIN cache

\* st.cache_data: an entry answers while it is younger than ttl
Fresh(cache, key, t) == key \in DOMAIN cache /\ t < cache[key].stored + TTL

Store(cache, key, value, t) ==
    [k \in DOMAIN cache \cup {key} |->
        IF k = key THEN [stored |-> t, value |-> value] ELSE cache[k]]

\* pd.DataFrame(rows): the columns are the keys in order of first appearance,
\* a row without a key gets the missing cell
RECURSIVE union_keys(_, _)
union_keys(seen, keys) ==
    IF keys = <<>> THEN seen
    ELSE union_keys(IF Head(keys) \in Range(seen) THEN seen
                    ELSE Append(seen, Head(keys)), Tail(keys))

RECURSIVE columns_of(_)
columns_of(rows) ==
    IF rows = <<>> THEN <<>>
    ELSE union_keys(columns_of(SubSeq(rows, 1, Len(rows) - 1)),
                    KeysOf(rows[Len(rows)]))

DataFrame(rows) ==
    LET cols == columns_of(rows)
    IN  [cols |-> cols,
         rows |-> [i \in DOMAIN rows |->
                    [c \in Range(cols) |->
                        IF c \in DOMAIN rows[i] THEN rows[i][c] ELSE Missing(c)]]]

\* faulty variant: a raising ticker leaves no row behind
fetch_step_skip(before, tk, o, t) ==
    IF Fresh(before.cache, tk, t)
    THEN [rows |-> Append(before.rows, before.cache[tk].value),
          cache |-> before.cache,
          events |-> Append(before.events, "hit")]
    ELSE IF o.raises
    THEN [rows |-> before.rows,
          cache |-> before.cache,
          events |-> Append(before.events, "raised")]
    ELSE [rows |-> Append(before.rows, fetch_summary(tk, o)),
          cache |-> Store(before.cache, tk, fetch_summary(tk, o), t),
          events |-> Append(before.events, "ok")]

\* One turn of the loop of batch_fetch: the cached fetch_summary answers from
\* its cache, or queries the provider and stores the answer, or raises
\* (nothing is stored) and the except clause appends the error row.
fetch_step(before, tk, o, t) ==
    IF Fresh(before.cache, tk, t)
    THEN [rows |-> Append(before.rows, before.cache[tk].value),
          cache |-> before.cache,
          events |-> Append(before.events, "hit")]
    ELSE IF o.raises
    THEN [rows |-> Append(before.rows, error_row(tk)),
          cache |-> before.cache,
          events |-> Append(before.events, "raised")]
    ELSE [rows |-> Append(before.rows, fetch_summary(tk, o)),
          cache |-> Store(before.cache, tk, fetch_summary(tk, o), t),
          events |-> Append(before.events, "ok")]

RECURSIVE batch_loop(_, _, _, _, _)
batch_loop(ts, os, cache, t, n) ==
    IF n = 0 THEN [rows |-> <<>>, cache |-> cache, events |-> <<>>]
    ELSE fetch_step(batch_loop(ts, os, cache, t, n - 1), ts[n], os[n], t)

\* The cached batch_fetch: a fresh entry for the exact ticker list answers
\* without running the body; otherwise the body runs and its frame is stored.
batch_fetch(ts, os, fc, bc, t) ==
    IF Fresh(bc, ts, t)
    THEN [frame |-> bc[ts].value, fs |-> fc, bc |-> bc, events |-> <<>>,
          hit |-> TRUE]
    ELSE LET r == batch_loop(ts, os, fc, t, Len(ts))
             f == DataFrame(r.rows)
         IN  [frame |-> f, fs |-> r.cache, bc |-> Store(bc, ts, f, t),
              events |-> r.events, hit |-> FALSE]

\* ------------------------------------------------------------------ pipeline

EmptyFrame == [cols |-> <<>>, rows |-> <<>>]

HasCols(f, names) == names \subseteq Range(f.cols)

\* df[name] = vals
AddCol(f, name, vals) ==
    LET cols == IF name \in Range(f.cols) THEN f.cols ELSE Append(f.cols, name)
    IN  [cols |-> cols,
         rows |-> [i \in DOMAIN f.rows |->
                    [c \in Range(cols) |->
                        IF c = name THEN vals[i] ELSE f.rows[i][c]]]]

pe_col(t) == IF t = "Forward PE" THEN "Forward PE" ELSE "Trailing PE"

\* df["PE Used"] = df[pe_col]
choose_pe(f, t) ==
    AddCol(f, "PE Used", [i \in DOMAIN f.rows |-> f.rows[i][pe_col(t)]])

fillna(cell, x) == IF cell.nan THEN Num(x) ELSE cell

\* faulty variant: the manual growth overrides the analyst estimate
choose_growth_manual(f, source, manual) ==
    AddCol(f, "Growth % Used", [i \in DOMAIN f.rows |-> Num(manual)])

\* growth_source.startswith("Analyst"): the analyst column, manual where NaN
choose_growth(f, source, manual) ==
    IF source = "Analyst"
    THEN AddCol(f, "Growth % Used",
                [i \in DOMAIN f.rows |->
                    fillna(f.rows[i]["Analyst 5y Growth %"], manual)])
    ELSE AddCol(f, "Growth % Used", [i \in DOMAIN f.rows |-> Num(manual)])

\* faulty variant: no floor
clip_none(cell) == cell

\* Series.clip(lower=0.0): NaN stays NaN
clip(cell) == IF cell.nan THEN cell ELSE Num(Max(cell.v, 0))

clamp(f) ==
    LET d == AddCol(f, "Dividend %",
                    [i \in DOMAIN f.rows |-> clip(f.rows[i]["Dividend %"])])
    IN  AddCol(d, "Growth % Used",
               [i \in DOMAIN d.rows |-> clip(d.rows[i]["Growth % Used"])])

\* a + b on float cells
add(a, b) == IF a.nan \/ b.nan THEN NaN ELSE Num(a.v + b.v)

\* denom.replace({0: np.nan})
replace_zero(cell) == IF ~cell.nan /\ cell.v = 0 THEN NaN ELSE cell

NaNQ == [nan |-> TRUE, num |-> 0, den |-> 1]

\* a / b on float cells, b not 0: the exact quotient with a positive denominator
quot(a, b) ==
    IF a.nan \/ b.nan THEN NaNQ
    ELSE IF b.v > 0 THEN [nan |-> FALSE, num |-> a.v, den |-> b.v]
    ELSE [nan |-> FALSE, num |-> 0 - a.v, den |-> 0 - b.v]

\* df["PEGY"] = df["PE Used"] / denom.replace({0: np.nan})
derive_pegy(f) ==
    AddCol(f, "PEGY",
           [i \in DOMAIN f.rows |->
               quot(f.rows[i]["PE Used"],
                    replace_zero(add(f.rows[i]["Growth % Used"],
                                     f.rows[i]["Dividend %"])))])

\* filtered[mask]: the rows of the mask, in order
RECURSIVE select_rows(_, _)
select_rows(rows, mask) ==
    IF rows = <<>> THEN <<>>
    ELSE LET init == select_rows(SubSeq(rows, 1, Len(rows) - 1),
                                 SubSeq(mask, 1, Len(mask) - 1))
         IN  IF mask[Len(rows)] THEN Append(init, rows[Len(rows)]) ELSE init

\* cell >= x and q <= x on floats: a comparison with NaN is False
ge(cell, x) == ~cell.nan /\ cell.v >= x
le_q(q, x) == ~q.nan /\ q.num * 10 <= x * q.den

\* faulty variant: a threshold of 0 is applied like any other
apply_filters_always(f, min_div, maxp) ==
    LET a == [f EXCEPT !.rows = select_rows(f.rows,
                 [i \in DOMAIN f.rows |-> ge(f.rows[i]["Dividend %"], min_div)])]
    IN  [a EXCEPT !.rows = select_rows(a.rows,
                 [i \in DOMAIN a.rows |-> le_q(a.rows[i]["PEGY"], maxp)])]

apply_filters(f, min_div, maxp) ==
    LET a == IF min_div > 0
             THEN [f EXCEPT !.rows = select_rows(f.rows,
                     [i \in DOMAIN f.rows |-> ge(f.rows[i]["Dividend %"], min_div)])]
             ELSE f
    IN  IF maxp > 0
        THEN [a EXCEPT !.rows = select_rows(a.rows,
                [i \in DOMAIN a.rows |-> le_q(a.rows[i]["PEGY"], maxp)])]
        ELSE a

\* ord(c) of the characters tickers are made of
Ord(c) == CASE c = "A" -> 65 [] c = "B" -> 66 [] c = "a" -> 97 [] OTHER -> 32

\* s < t on Python strings
RECURSIVE StrLess(_, _)
StrLess(s, t) ==
    IF t = <<>> THEN FALSE
    ELSE IF s = <<>> THEN TRUE
    ELSE IF Ord(Head(s)) # Ord(Head(t)) THEN Ord(Head(s)) < Ord(Head(t))
    ELSE StrLess(Tail(s), Tail(t))

QLess(p, q) == p.num * q.den < q.num * p.den
QEq(p, q) == p.num * q.den = q.num * p.den

\* faulty variant: the sort key is PEGY alone
RowBefore_pegy_only(a, b) ==
    LET p == a["PEGY"]
        q == b["PEGY"]
    IN  ~p.nan /\ (q.nan \/ QLess(p, q))

\* a sorts strictly before b under by=["PEGY", "Ticker"], ascending,
\* na_position="last"
RowBefore(a, b) ==
    LET p == a["PEGY"]
        q == b["PEGY"]
        byTicker == StrLess(a["Ticker"].v, b["Ticker"].v)
    IN  IF p.nan /\ q.nan THEN byTicker
        ELSE IF p.nan THEN FALSE
        ELSE IF q.nan THEN TRUE
        ELSE QLess(p, q) \/ (QEq(p, q) /\ byTicker)

RECURSIVE insert_row(_, _)
insert_row(sorted, x) ==
    IF sorted = <<>> THEN <<x>>
    ELSE IF RowBefore(x, sorted[Len(sorted)])
    THEN Append(insert_row(SubSeq(sorted, 1, Len(sorted) - 1), x),
                sorted[Len(sorted)])
    ELSE Append(sorted, x)

RECURSIVE sort_rows(_)
sort_rows(rows) ==
    IF rows = <<>> THEN <<>>
    ELSE insert_row(sort_rows(SubSeq(rows, 1, Len(rows) - 1)), rows[Len(rows)])

\* filtered.sort_values(by=["PEGY", "Ticker"], na_position="last"): stable
sort_values(f) == [f EXCEPT !.rows = sort_rows(f.rows)]

DisplayCols ==
    <<"Ticker", "Name", "Sector", "Price", "PE Used", "Growth % Used",
      "Dividend %", "PEGY">>

RoundedCols == {"Price", "PE Used", "Growth % Used", "Dividend %"}

\* round(2) of a float cell: tenths to hundredths
round2(cell) == IF cell.nan THEN cell ELSE Num(cell.v * 10)

\* round(2) of a quotient, in hundredths, ties to even
round2_q(q) ==
    IF q.nan THEN NaN
    ELSE LET n == q.num * 100
             lo == n \div q.den
             r == n % q.den
         IN  IF 2 * r > q.den \/ (2 * r = q.den /\ lo % 2 = 1)
             THEN Num(lo + 1)
             ELSE Num(lo)

\* filtered[[...]].round({...}), the table handed to st.dataframe
display(f) ==
    [cols |-> DisplayCols,
     rows |-> [i \in DOMAIN f.rows |->
                [c \in Range(DisplayCols) |->
                    IF c = "PEGY" THEN round2_q(f.rows[i][c])
                    ELSE IF c \in RoundedCols THEN round2(f.rows[i][c])
                    ELSE f.rows[i][c]]]]

\* faulty variant: the export is the presented selection of columns
to_csv_display(f) ==
    [header |-> DisplayCols,
     lines |-> [i \in DOMAIN f.rows |->
                 [j \in DOMAIN DisplayCols |-> f.rows[i][DisplayCols[j]]]]]

\* filtered.to_csv(index=False): a header of the frame's columns, then one
\* line per row with the cells in column order
to_csv(f) ==
    [header |-> f.cols,
     lines |-> [i \in DOMAIN f.rows |->
                 [j \in DOMAIN f.cols |-> f.rows[i][f.cols[j]]]]]

\* ------------------------------------------------------------------ state

NoCall ==
    [made |-> FALSE, key |-> <<>>, os |-> <<>>, at |-> 0, had |-> FALSE,
     age |-> 0, prev |-> EmptyFrame, fsAge |-> <<>>, hit |-> FALSE,
     events |-> <<>>, frame |-> EmptyFrame, kept |-> TRUE]

NoCsv == [header |-> <<>>, lines |-> <<>>]

\* the age an entry of a cache has at time t, -1 when there is none
AgeOf(cache, key, t) == IF key \in DOMAIN cache THEN t - cache[key].stored ELSE -1

\* The sidebar as number_input allows it: growth 0..100 %, dividend filter
\* 0..20 %, PEGY filter 0..5, all in tenths.
PeTypes == {"Forward PE", "Trailing PE"}
GrowthSources == {"Analyst", "Manual"}
ManualGrowths == {0, 100}
MinDivYields == {0, 20}
MaxPegys == {0, 15}


RECURSIVE join(_)
join(ts) ==
    IF ts = <<>> THEN <<>>
    ELSE IF Len(ts) = 1 THEN ts[1]
    ELSE ts[1] \o <<",">> \o join(Tail(ts))

Idle ==
    /\ now = 0
    /\ fsCache = EmptyCache
    /\ batchCache = EmptyCache
    /\ lastCall = NoCall
    /\ calls = 0
    /\ df = EmptyFrame
    /\ filtered = EmptyFrame
    /\ shown = EmptyFrame
    /\ csv = NoCsv

Sidebar ==
    /\ pe_type \in PeTypes
    /\ growth_source \in GrowthSources
    /\ manual_growth \in ManualGrowths
    /\ min_div_yield \in MinDivYields
    /\ max_pegy \in MaxPegys

Defaults ==
    /\ pe_type = "Forward PE"
    /\ growth_source = "Analyst"
    /\ manual_growth = 100
    /\ min_div_yield = 0
    /\ max_pegy = 15

config == <<pe_type, growth_source, manual_growth, min_div_yield, max_pegy>>
caches == <<now, fsCache, batchCache, lastCall, calls>>
tables == <<df, filtered, shown, csv>>

\* ------------------------------------------------------------------ parser

InitParse ==
    /\ txt \in BoundedSeq(Chars, MaxLen)
    /\ tickers = <<>>
    /\ pc = "edit"
    /\ Defaults
    /\ Idle

\* tickers = parse_tickers(tickers_text)
Parse ==
    /\ pc = "edit"
    /\ tickers' = parse_tickers(txt)
    /\ pc' = "parsed"
    /\ UNCHANGED <<txt, config, caches, tables>>

NextParse == Parse

SpecParse == InitParse /\ [][NextParse]_vars

\* ------------------------------------------------------------------ run

\* Run Screen has been pressed on a sidebar filled in by the user.
Init ==
    /\ tickers \in BoundedSeq(Symbols, MaxTickers)
    /\ txt = join(tickers)
    /\ pc = "clicked"
    /\ Sidebar
    /\ Idle

\* if not tickers: st.warning(...); st.stop()
StopEmpty ==
    /\ pc = "clicked"
    /\ tickers = <<>>
    /\ pc' = "stopped"
    /\ UNCHANGED <<txt, tickers, config, caches, tables>>

\* One call of batch_fetch(ts) at the current time, the provider answering
\* os[i] if position i comes to query it.
Call(ts, os) ==
    LET r == batch_fetch(ts, os, fsCache, batchCache, now)
    IN  /\ fsCache' = r.fs
        /\ batchCache' = r.bc
        /\ calls' = calls + 1
        /\ df' = r.frame
        /\ lastCall' =
              [made |-> TRUE, key |-> ts, os |-> os, at |-> now,
               had |-> ts \in DOMAIN batchCache,
               age |-> AgeOf(batchCache, ts, now),
               prev |-> IF ts \in DOMAIN batchCache
                        THEN batchCache[ts].value ELSE EmptyFrame,
               fsAge |-> [i \in DOMAIN ts |-> AgeOf(fsCache, ts[i], now)],
               hit |-> r.hit, events |-> r.events, frame |-> r.frame,
               kept |-> ts \in DOMAIN batchCache => r.bc[ts] = batchCache[ts]]

\* df = batch_fetch(tickers)
Fetch ==
    /\ pc = "clicked"
    /\ tickers # <<>>
    /\ \E os \in [DOMAIN tickers -> Provider] : Call(tickers, os)
    /\ pc' = "pe"
    /\ UNCHANGED <<txt, tickers, config, now, filtered, shown, csv>>

\* df["PE Used"] = df[pe_col]; a missing column raises KeyError
ChoosePE ==
    /\ pc = "pe"
    /\ IF HasCols(df, {pe_col(pe_type)})
       THEN df' = choose_pe(df, pe_type) /\ pc' = "growth"
       ELSE df' = df /\ pc' = "crashed"
    /\ UNCHANGED <<txt, tickers, config, caches, filtered, shown, csv>>

ChooseGrowth ==
    /\ pc = "growth"
    /\ IF growth_source = "Analyst" => HasCols(df, {"Analyst 5y Growth %"})
       THEN df' = choose_growth(df, growth_source, manual_growth) /\ pc' = "clamp"
       ELSE df' = df /\ pc' = "crashed"
    /\ UNCHANGED <<txt, tickers, config, caches, filtered, shown, csv>>

Clamp ==
    /\ pc = "clamp"
    /\ IF HasCols(df, {"Dividend %", "Growth % Used"})
       THEN df' = clamp(df) /\ pc' = "pegy"
       ELSE df' = df /\ pc' = "crashed"
    /\ UNCHANGED <<txt, tickers, config, caches, filtered, shown, csv>>

DerivePEGY ==
    /\ pc = "pegy"
    /\ df' = derive_pegy(df)
    /\ pc' = "filter"
    /\ UNCHANGED <<txt, tickers, config, caches, filtered, shown, csv>>

Filter ==
    /\ pc = "filter"
    /\ filtered' = apply_filters(df, min_div_yield, max_pegy)
    /\ pc' = "sort"
    /\ UNCHANGED <<txt, tickers, config, caches, df, shown, csv>>

Sort ==
    /\ pc = "sort"
    /\ filtered' = sort_values(filtered)
    /\ pc' = "display"
    /\ UNCHANGED <<txt, tickers, config, caches, df, shown, csv>>

Display ==
    /\ pc = "display"
    /\ shown' = display(filtered)
    /\ pc' = "download"
    /\ UNCHANGED <<txt, tickers, config, caches, df, filtered, csv>>

Download ==
    /\ pc = "download"
    /\ csv' = to_csv(filtered)
    /\ pc' = "done"
    /\ UNCHANGED <<txt, tickers, config, caches, df, filtered, shown>>

Next ==
    \/ StopEmpty
    \/ Fetch
    \/ ChoosePE
    \/ ChooseGrowth
    \/ Clamp
    \/ DerivePEGY
    \/ Filter
    \/ Sort
    \/ Display
    \/ Download

Spec == Init /\ [][Next]_vars

\* ------------------------------------------------------------------ reruns

\* The ticker lists the user alternates between, and what the provider
\* answers, while the script is rerun over time.
CacheInputs == {<< <<"A">> >>, << <<"A">>, <<"B">> >>, << <<"A">>, <<"A">> >>}
CacheProvider == {Healthy, Failing}

InitCache ==
    /\ tickers = <<>>
    /\ txt = <<>>
    /\ pc = "serve"
    /\ Defaults
    /\ Idle

\* time passes between two runs
Tick ==
    /\ pc = "serve"
    /\ now + TickSeconds <= MaxNow
    /\ now' = now + TickSeconds
    /\ UNCHANGED <<txt, tickers, config, fsCache, batchCache, lastCall, calls,
                   tables, pc>>

\* a rerun of the script reaches df = batch_fetch(tickers)
Rerun ==
    /\ pc = "serve"
    /\ calls < MaxCalls
    /\ \E ts \in CacheInputs :
          /\ \E os \in [DOMAIN ts -> CacheProvider] : Call(ts, os)
          /\ tickers' = ts
          /\ txt' = join(ts)
    /\ UNCHANGED <<config, now, filtered, shown, csv, pc>>

NextCache == Tick \/ Rerun

SpecCache == InitCache /\ [][NextCache]_vars

\* ------------------------------------------------------------------ claims

Count(s, x) == Cardinality({i \in DOMAIN s : s[i] = x})

IsPermutation(a, b) ==
    /\ Len(a) = Len(b)
    /\ \A x \in Range(a) \cup Range(b) : Count(a, x) = Count(b, x)

AfterPEGY == pc \in {"filter", "sort", "display", "download", "done"}

\* the frame batch_fetch returned to this run, before the pipeline touched it
fetched == lastCall.frame

\* C1: in every row of the frame after the PEGY step, Dividend % and
\* Growth % Used are the fetched/selected values floored at 0; PEGY is NaN
\* when PE Used is NaN or the floored sum is 0 (or NaN), and otherwise it is
\* exactly PE Used / (Growth % Used + Dividend %).
C1_ClampAndPEGY ==
    AfterPEGY =>
        \A i \in DOMAIN df.rows :
            LET r == df.rows[i]
                d == r["Dividend %"]
                g == r["Growth % Used"]
                pe == r["PE Used"]
                q == r["PEGY"]
                d0 == fetched.rows[i]["Dividend %"]
            IN  /\ d.nan = d0.nan
                /\ ~d.nan => d.v >= 0 /\ d.v = Max(d0.v, 0)
                /\ ~g.nan /\ g.v >= 0
                /\ (pe.nan \/ d.nan \/ g.v + d.v = 0) => q.nan
                /\ ~(pe.nan \/ d.nan \/ g.v + d.v = 0) =>
                       /\ ~q.nan
                       /\ q.den > 0
                       /\ q.num * (g.v + d.v) = pe.v * q.den

C1_Witness ==
    /\ AfterPEGY
    /\ \E i \in DOMAIN df.rows :
          /\ fetched.rows[i]["Dividend %"].v < 0
          /\ ~df.rows[i]["PE Used"].nan
          /\ df.rows[i]["Growth % Used"].v + df.rows[i]["Dividend %"].v = 0
          /\ df.rows[i]["PEGY"].nan
    /\ \E j \in DOMAIN df.rows : ~df.rows[j]["PEGY"].nan

\* C2: after the growth selection, with the analyst source a row uses its
\* analyst estimate when it has one and the manual growth when it has none;
\* with the manual source every row uses the manual growth.  (The clamp that
\* follows floors that value at 0.)
C2_GrowthSelection ==
    /\ pc = "clamp" =>
          \A i \in DOMAIN df.rows :
              LET a == df.rows[i]["Analyst 5y Growth %"]
                  g == df.rows[i]["Growth % Used"]
              IN  IF growth_source = "Analyst"
                  THEN g = (IF a.nan THEN Num(manual_growth) ELSE a)
                  ELSE g = Num(manual_growth)
    /\ AfterPEGY =>
          \A i \in DOMAIN df.rows :
              LET a == df.rows[i]["Analyst 5y Growth %"]
                  g == df.rows[i]["Growth % Used"]
              IN  IF growth_source = "Analyst" /\ ~a.nan
                  THEN g = Num(Max(a.v, 0))
                  ELSE g = Num(manual_growth)

C2_Witness ==
    /\ pc = "clamp"
    /\ growth_source = "Analyst"
    /\ manual_growth > 0
    /\ \E i \in DOMAIN df.rows : ~df.rows[i]["Analyst 5y Growth %"].nan
    /\ \E j \in DOMAIN df.rows : df.rows[j]["Analyst 5y Growth %"].nan

Survives(r) ==
    /\ min_div_yield = 0
       \/ (~r["Dividend %"].nan /\ r["Dividend %"].v >= min_div_yield)
    /\ max_pegy = 0
       \/ (~r["PEGY"].nan /\ r["PEGY"].num * 10 <= max_pegy * r["PEGY"].den)

\* C3: the filter keeps exactly the rows with Dividend % >= min_div_yield
\* and PEGY <= max_pegy, in their order, a threshold of 0 switching its
\* comparison off; an active PEGY filter removes every NaN PEGY, and with
\* both thresholds 0 nothing is removed.
C3_Filter ==
    pc = "sort" =>
        /\ filtered.cols = df.cols
        /\ filtered.rows = SelectSeq(df.rows, Survives)
        /\ max_pegy > 0 =>
              \A i \in DOMAIN filtered.rows : ~filtered.rows[i]["PEGY"].nan
        /\ (min_div_yield = 0 /\ max_pegy = 0) => filtered.rows = df.rows

C3_Witness ==
    /\ pc = "sort"
    /\ max_pegy > 0
    /\ min_div_yield = 0
    /\ \E i \in DOMAIN df.rows : df.rows[i]["PEGY"].nan
    /\ Len(df.rows) = 2
    /\ Len(filtered.rows) = 1

Ranked(rows) ==
    \A i, j \in DOMAIN rows :
        i < j =>
            LET p == rows[i]["PEGY"]
                q == rows[j]["PEGY"]
            IN  /\ p.nan => q.nan
                /\ (~p.nan /\ ~q.nan) =>
                      /\ p.num * q.den <= q.num * p.den
                      /\ p.num * q.den = q.num * p.den =>
                            ~StrLess(rows[j]["Ticker"].v, rows[i]["Ticker"].v)

\* C4: the sort step leaves a permutation of the filtered rows in which the
\* rows with a PEGY come first, in non-decreasing PEGY and by ascending
\* Ticker among equal PEGY, and every NaN PEGY comes after them.
C4_Ranking ==
    [][pc = "sort" =>
          /\ IsPermutation(filtered.rows, filtered'.rows)
          /\ filtered'.cols = filtered.cols
          /\ Ranked(filtered'.rows)]_vars

C4_Witness ==
    /\ pc = "display"
    /\ Len(filtered.rows) >= 2
    /\ filtered.rows # apply_filters(df, min_div_yield, max_pegy).rows
    /\ ~filtered.rows[1]["PEGY"].nan
    /\ QEq(filtered.rows[1]["PEGY"], filtered.rows[2]["PEGY"])
    /\ filtered.rows[1]["Ticker"] # filtered.rows[2]["Ticker"]

IsErrorShape(f, i, t) ==
    /\ "Error" \in Range(f.cols)
    /\ \A c \in Range(f.cols) :
          f.rows[i][c].nan <=> c \notin {"Ticker", "Error"}
    /\ f.rows[i]["Ticker"] = Str(t)

IsSummaryOf(f, i, t, o) ==
    /\ \A c \in Range(SummaryKeys) :
          c \in Range(f.cols) /\ f.rows[i][c] = fetch_summary(t, o)[c]
    /\ "Error" \in Range(f.cols) => f.rows[i]["Error"].nan

\* C5: batch_fetch returns one row per position, in input order; a position
\* whose lookup raises carries Ticker and Error only, every other position
\* the fundamentals the provider gave for it (or, for a repeated ticker, the
\* fundamentals its earlier successful lookup left in the cache).
C5_Isolation ==
    (pc = "pe" /\ lastCall.made) =>
        LET ev == lastCall.events
            os == lastCall.os
        IN  /\ Len(df.rows) = Len(tickers)
            /\ Len(ev) = Len(tickers)
            /\ \A i \in DOMAIN tickers :
                  /\ df.rows[i]["Ticker"] = Str(tickers[i])
                  /\ ev[i] = "raised" => IsErrorShape(df, i, tickers[i])
                  /\ ev[i] = "ok" => IsSummaryOf(df, i, tickers[i], os[i])
                  /\ ev[i] = "hit" =>
                        \E j \in 1..(i - 1) :
                            /\ tickers[j] = tickers[i]
                            /\ ev[j] = "ok"
                            /\ IsSummaryOf(df, i, tickers[i], os[j])
                  /\ ev[i] = "raised" <=>
                        /\ os[i].raises
                        /\ \A j \in 1..(i - 1) :
                              tickers[j] = tickers[i] => os[j].raises

C5_Witness ==
    /\ pc = "pe"
    /\ Len(tickers) >= 2
    /\ lastCall.events[1] = "raised"
    /\ lastCall.events[2] = "ok"
    /\ tickers[1] = tickers[2]

HasError(f, i) == "Error" \in Range(f.cols) /\ ~f.rows[i]["Error"].nan

\* C6: a run stops only on an empty ticker list; every other run goes
\* through the whole pipeline, whichever lookups failed, with the Error rows
\* removed by any active filter and ranked after every row that has a PEGY.
C6_Original ==
    /\ pc # "crashed"
    /\ pc = "stopped" => tickers = <<>>
    /\ (pc \in {"sort", "display", "download", "done"}
        /\ (min_div_yield > 0 \/ max_pegy > 0)) =>
           \A i \in DOMAIN filtered.rows : ~HasError(filtered, i)
    /\ pc \in {"display", "download", "done"} =>
           \A i, j \in DOMAIN filtered.rows :
               (HasError(filtered, i) /\ ~filtered.rows[j]["PEGY"].nan) => j < i

Sep(c) == c \in {",", "\n"}
Blank(c) == c \in Whitespace

\* the positions of t where a token starts: a character that is neither a
\* separator nor blank, with only blanks between it and the separator (or the
\* start of the text) before it
Starts(t) ==
    {i \in DOMAIN t :
        /\ ~Sep(t[i]) /\ ~Blank(t[i])
        /\ \A j \in 1..(i - 1) :
              (\A k \in j..(i - 1) : ~Sep(t[k])) => Blank(t[j])}

\* the last non-blank position of the piece that holds position i
EndOf(t, i) ==
    CHOOSE j \in i..Len(t) :
        /\ ~Blank(t[j])
        /\ \A k \in i..j : ~Sep(t[k])
        /\ \A m \in (j + 1)..Len(t) :
              (\A k \in j..m : ~Sep(t[k])) => Blank(t[m])

TokenAt(t, i) == upper(SubSeq(t, i, EndOf(t, i)))

KthStart(t, k) ==
    CHOOSE i \in Starts(t) : Cardinality({j \in Starts(t) : j <= i}) = k

\* C7: parse_tickers returns, in input order, the comma- or newline-separated
\* pieces of the text that hold a non-blank character, each stripped and
\* upper-cased; no token is empty, has a lower-case letter, a separator or a
\* blank edge; the result is empty exactly when the text is only blanks and
\* separators.
C7_Parse ==
    pc = "parsed" =>
        /\ \A k \in DOMAIN tickers :
              /\ tickers[k] # <<>>
              /\ \A c \in Range(tickers[k]) : c \notin Lower /\ ~Sep(c)
              /\ ~Blank(tickers[k][1])
              /\ ~Blank(tickers[k][Len(tickers[k])])
              /\ tickers[k] = TokenAt(txt, KthStart(txt, k))
        /\ Len(tickers) = Cardinality(Starts(txt))
        /\ tickers = <<>> <=> \A i \in DOMAIN txt : Sep(txt[i]) \/ Blank(txt[i])

C7_Witness ==
    /\ pc = "parsed"
    /\ txt = <<" ", "a", "\n", "B">>
    /\ tickers = << <<"A">>, <<"B">> >>

\* C8 as stated: no symbol appears twice in the parsed list.
C8_Original ==
    pc = "parsed" =>
        \A i, j \in DOMAIN tickers : i # j => tickers[i] # tickers[j]

\* C8: the parsed list keeps the input order and keeps repeats: a symbol
\* appears as many times as the text has pieces that normalise to it.
C8_RepeatsKept ==
    pc = "parsed" =>
        /\ \A s \in Range(tickers) :
              Count(tickers, s) =
                  Cardinality({i \in Starts(txt) : TokenAt(txt, i) = s})
        /\ \A i \in Starts(txt) : TokenAt(txt, i) \in Range(tickers)

C8_Witness ==
    /\ pc = "parsed"
    /\ txt = <<"a", ",", "a">>
    /\ tickers = << <<"A">>, <<"A">> >>

Queried(ev) == {i \in DOMAIN ev : ev[i] \in {"ok", "raised"}}

\* C10 as stated: a call within 15 minutes of the store is answered from the
\* cache without a provider query, and the first call after the expiry
\* queries the provider again.
C10_Original ==
    lastCall.made =>
        /\ (lastCall.had /\ lastCall.age < TTL) =>
              /\ lastCall.frame = lastCall.prev
              /\ Queried(lastCall.events) = {}
        /\ (lastCall.had /\ lastCall.age >= TTL) =>
              Queried(lastCall.events) # {}

\* C10: a batch_fetch call within 15 minutes of the store of its ticker list
\* returns the stored frame, queries nothing and leaves the entry and its
\* age alone; any other call runs the batch again and stores the frame anew,
\* and in it fetch_summary queries the provider exactly for the positions
\* whose ticker has no entry younger than 15 minutes (stored before the call
\* or by an earlier position of the same batch).
C10_TimeToLive ==
    lastCall.made =>
        LET ev == lastCall.events
            key == lastCall.key
        IN  /\ (lastCall.had /\ lastCall.age < TTL) =>
                  /\ lastCall.hit
                  /\ lastCall.frame = lastCall.prev
                  /\ ev = <<>>
                  /\ lastCall.kept
            /\ ~(lastCall.had /\ lastCall.age < TTL) =>
                  /\ ~lastCall.hit
                  /\ batchCache[key] = [stored |-> lastCall.at, value |-> lastCall.frame]
                  /\ Len(ev) = Len(key)
                  /\ \A i \in DOMAIN key :
                        /\ ev[i] = "hit" <=>
                              \/ lastCall.fsAge[i] >= 0 /\ lastCall.fsAge[i] < TTL
                              \/ \E j \in 1..(i - 1) : key[j] = key[i] /\ ev[j] = "ok"
                        /\ ev[i] = "ok" => fsCache[key[i]].stored = lastCall.at
                        /\ ev[i] = "hit" =>
                              IsSummaryOf(lastCall.frame, i, key[i], Healthy)

C10_Witness ==
    /\ lastCall.made
    /\ lastCall.had
    /\ lastCall.age >= TTL
    /\ ~lastCall.hit
    /\ lastCall.events = <<"hit">>

====
